---- MODULE Spec2Model ----
(***************************************************************************)
(* Model of src/bin/wiki-create.rs: the provisioning tool that downloads   *)
(* a node runtime and the wiki / wiki-client / wiki-server archives,       *)
(* extracts them, links them with npm and persists config.yaml.            *)
(*                                                                         *)
(* Strings are sequences of tokens, so that split / format / join are      *)
(* computed and not assumed.  A path is a sequence of names, a name is a   *)
(* sequence of tokens.  The filesystem is the set of existing directories, *)
(* the set of existing regular files, and the content of config.yaml.      *)
(***************************************************************************)
EXTENDS Integers, Sequences, FiniteSets, TLC

VARIABLES platform, dirs, files, doc, pc, mem, args, hist, result, input, output

vars == <<platform, dirs, files, doc, pc, mem, args, hist, result, input, output>>

(***************************************************************************)
(* Bounds                                                                  *)
(***************************************************************************)
\* number of plugin specs a hand-written config.yaml may list
MaxPlugins == 1

\* length of the branch specs given to the resolver
MaxSpecLen == 3

\* number of entries of the archives given to unzip
MaxEntries == 3

Procs == {1, 2}

(***************************************************************************)
(* Strings and paths                                                       *)
(***************************************************************************)
\* Option::None of a path or url
None == << <<"None">> >>

\* index of the first occurrence of token sep in s, 0 if there is none
RECURSIVE find(_, _, _)
find(s, sep, i) ==
    IF i > Len(s) THEN 0
    ELSE IF s[i] = sep THEN i
    ELSE find(s, sep, i + 1)

\* str::split: the segments of s between occurrences of sep (never empty)
RECURSIVE split(_, _)
split(s, sep) ==
    LET i == find(s, sep, 1)
    IN  IF i = 0 THEN <<s>>
        ELSE <<SubSeq(s, 1, i - 1)>> \o split(SubSeq(s, i + 1, Len(s)), sep)

\* str::replace on a path string: every "~" name becomes the home directory
HomeDir == << <<"home">> >>

RECURSIVE replace_home(_)
replace_home(p) ==
    IF p = <<>> THEN <<>>
    ELSE (IF Head(p) = <<"~">> THEN HomeDir ELSE <<Head(p)>>) \o replace_home(Tail(p))

join(p, q) == p \o q

\* every non-empty prefix of a path: what create_dir_all brings into being
Ancestors(p) == { SubSeq(p, 1, n) : n \in 1..Len(p) }

IsPrefix(d, p) == Len(d) <= Len(p) /\ SubSeq(p, 1, Len(d)) = d

\* str::contains for a token
contains(p, tok) == \E i \in 1..Len(p) : \E j \in 1..Len(p[i]) : p[i][j] = tok

(***************************************************************************)
(* Branch                                                                  *)
(***************************************************************************)
\* user_repo_branch with another default branch
user_repo_branch_main(path_spec) ==
    LET parts == split(path_spec, ":")
        user_repo_parts == split(parts[1], "/")
    IN  [ ok     |-> Len(user_repo_parts) >= 2,
          user   |-> user_repo_parts[1],
          repo   |-> IF Len(user_repo_parts) >= 2 THEN user_repo_parts[2] ELSE <<>>,
          branch |-> IF Len(parts) >= 2 THEN parts[2] ELSE <<"main">> ]

\* ok is FALSE where one of the two expect calls panics
user_repo_branch(path_spec) ==
    LET parts == split(path_spec, ":")
        user_repo_parts == split(parts[1], "/")
    IN  [ ok     |-> Len(user_repo_parts) >= 2,
          user   |-> user_repo_parts[1],
          repo   |-> IF Len(user_repo_parts) >= 2 THEN user_repo_parts[2] ELSE <<>>,
          branch |-> IF Len(parts) >= 2 THEN parts[2] ELSE <<"master">> ]

Branch_url(path_spec) ==
    LET urb == user_repo_branch(path_spec)
    IN  <<"https://github.com/">> \o urb.user \o <<"/">> \o urb.repo
            \o <<"/archive/">> \o urb.branch \o <<".zip">>

Branch_dir(path_spec) ==
    LET urb == user_repo_branch(path_spec)
    IN  << urb.repo \o <<"-">> \o urb.branch >>

Branch_zip(path_spec) ==
    LET urb == user_repo_branch(path_spec)
    IN  << urb.repo \o <<"-">> \o urb.branch \o <<".zip">> >>

(***************************************************************************)
(* WikiConfig                                                              *)
(***************************************************************************)
NodeConfig_default == [url |-> None, path |-> None]

\* the directory the tool is pointed at (--dir ~/wiki)
DirArg == << <<"~">>, <<"wiki">> >>

WikiConfig_new(dir) ==
    [ dir     |-> dir,
      wiki    |-> <<"fedwiki", "/", "wiki">>,
      server  |-> <<"fedwiki", "/", "wiki-server">>,
      client  |-> <<"fedwiki", "/", "wiki-client">>,
      plugins |-> <<>>,
      node    |-> NodeConfig_default ]

canonical_dir(c) == replace_home(c.dir)

ConfigYaml(c) == join(canonical_dir(c), << <<"config.yaml">> >>)

exists(c) == ConfigYaml(c) \in files

wiki_dir(c)   == join(canonical_dir(c), Branch_dir(c.wiki))
client_dir(c) == join(canonical_dir(c), Branch_dir(c.client))
server_dir(c) == join(canonical_dir(c), Branch_dir(c.server))
wiki_zip(c)   == join(canonical_dir(c), Branch_zip(c.wiki))
client_zip(c) == join(canonical_dir(c), Branch_zip(c.client))
server_zip(c) == join(canonical_dir(c), Branch_zip(c.server))

\* Path::exists
path_exists(p) == p \in dirs \/ p \in files

\* what is left of a set of paths after remove_dir_all(d)
remove_dir_all(paths, d) == { p \in paths : ~IsPrefix(d, p) }

(***************************************************************************)
(* Archives                                                                *)
(***************************************************************************)
\* the runtime distribution of each target_os: the url's path segments
node_url(os) ==
    IF os = "windows"
    THEN << <<"dist">>, <<"v12.13.1">>, <<"node-v12.13.1-win-x64", ".zip">> >>
    ELSE << <<"dist">>, <<"v12.13.0">>, <<"node-v12.13.0-linux-x64", ".tar.xz">> >>

npm_name(os) == IF os = "windows" THEN <<"npm.cmd">> ELSE <<"npm">>

\* entries of the runtime zip: name as stored, and whether it ends with '/'
NodeZipEntries ==
    << [name |-> << <<"node-v12.13.1-win-x64">> >>, is_dir |-> TRUE],
       [name |-> << <<"node-v12.13.1-win-x64">>, <<"npm.cmd">> >>, is_dir |-> FALSE] >>

\* entries of the runtime tarball
NodeTarEntries ==
    << [name |-> << <<"node-v12.13.0-linux-x64">> >>, is_dir |-> TRUE],
       [name |-> << <<"node-v12.13.0-linux-x64">>, <<"bin">> >>, is_dir |-> TRUE],
       [name |-> << <<"node-v12.13.0-linux-x64">>, <<"bin">>, <<"npm">> >>, is_dir |-> FALSE] >>

\* the archive of an older release of the runtime, which a user or an older
\* build may have left in the root directory
StaleNode == <<"node-v10.16.0-win-x64", ".zip">>

StaleZipEntries ==
    << [name |-> << <<"node-v10.16.0-win-x64">> >>, is_dir |-> TRUE],
       [name |-> << <<"node-v10.16.0-win-x64">>, <<"npm.cmd">> >>, is_dir |-> FALSE] >>

\* a github branch archive <repo>-<branch>.zip holds <repo>-<branch>/...
GithubZipEntries(zip_name) ==
    LET root == SubSeq(zip_name, 1, Len(zip_name) - 1)
    IN  << [name |-> <<root>>, is_dir |-> TRUE],
           [name |-> <<root, <<"package.json">> >>, is_dir |-> FALSE] >>

\* the entries of the zip file stored at a path
ZipEntries(zip_file) ==
    LET n == zip_file[Len(zip_file)]
    IN  IF n = node_url("windows")[3] THEN NodeZipEntries
        ELSE IF n = StaleNode THEN StaleZipEntries
        ELSE GithubZipEntries(n)

\* ZipFile::sanitized_name: parent-directory components are dropped
sanitized_name(name) == SelectSeq(name, LAMBDA c : c # <<"..">>)

\* a path that create_dir_all or File::create cannot make: a regular file is
\* in the way of one of its directories
blocked(path, F) == \E n \in 1..(Len(path) - 1) : SubSeq(path, 1, n) \in F

\* the loop of unzip over entries i..len, on directories D and files F; ok is
\* FALSE where an unwrap panics
RECURSIVE unzip_loop(_, _, _, _, _)
unzip_loop(entries, i, dest_dir, D, F) ==
    IF i > Len(entries) THEN [dirs |-> D, files |-> F, ok |-> TRUE]
    ELSE LET outpath == join(dest_dir, sanitized_name(entries[i].name))
             parent  == SubSeq(outpath, 1, Len(outpath) - 1)
         IN  IF entries[i].is_dir
             THEN IF outpath \in D \/ outpath \in F
                  THEN [dirs |-> D, files |-> F, ok |-> TRUE]
                  ELSE IF blocked(outpath, F)
                  THEN [dirs |-> D, files |-> F, ok |-> FALSE]
                  ELSE unzip_loop(entries, i + 1, dest_dir, D \cup Ancestors(outpath), F)
             ELSE IF blocked(outpath, F) \/ outpath \in D
                  THEN [dirs |-> D, files |-> F, ok |-> FALSE]
                  ELSE unzip_loop(entries, i + 1, dest_dir,
                                  D \cup Ancestors(parent), F \cup {outpath})

\* unzip of an archive given by its entries; by_index(0) is an error on an
\* archive without entries
unzip_archive(entries, dest_dir, D, F) ==
    IF entries = <<>>
    THEN [dirs |-> D, files |-> F, root |-> <<>>, ok |-> FALSE]
    ELSE LET out == unzip_loop(entries, 1, dest_dir, D, F)
         IN  [dirs |-> out.dirs, files |-> out.files,
              root |-> sanitized_name(entries[1].name), ok |-> out.ok]

unzip(zip_file, dest_dir, D, F) == unzip_archive(ZipEntries(zip_file), dest_dir, D, F)

\* tar::Archive::unpack: every entry is written, whatever exists already
unpack(entries, dest_dir, D, F) ==
    [ dirs  |-> D \cup UNION { Ancestors(join(dest_dir, entries[i].name)) :
                                 i \in { j \in 1..Len(entries) : entries[j].is_dir } }
                  \cup UNION { Ancestors(SubSeq(join(dest_dir, entries[i].name), 1,
                                                 Len(dest_dir) + Len(entries[i].name) - 1)) :
                                 i \in { j \in 1..Len(entries) : ~entries[j].is_dir } },
      files |-> F \cup { join(dest_dir, entries[i].name) :
                           i \in { j \in 1..Len(entries) : ~entries[j].is_dir } } ]

\* names under the root that the pattern node*.* matches, in glob's
\* alphabetical order
GlobOrder ==
    << <<"node-v10.16.0-win-x64">>,
       <<"node-v10.16.0-win-x64", ".zip">>,
       <<"node-v12.13.0-linux-x64">>,
       <<"node-v12.13.0-linux-x64", ".tar.xz">>,
       <<"node-v12.13.1-win-x64">>,
       <<"node-v12.13.1-win-x64", ".zip">> >>

\* glob(dir/node*.*): the matching paths that exist, in order
glob(dir) ==
    LET present(n) == join(dir, <<n>>) \in dirs \/ join(dir, <<n>>) \in files
        names == SelectSeq(GlobOrder, present)
    IN  [i \in 1..Len(names) |-> join(dir, <<names[i]>>)]

\* first match of the glob that is not a directory, None if there is none
first_file(matches) ==
    LET fs == SelectSeq(matches, LAMBDA m : m \notin dirs)
    IN  IF fs = <<>> THEN None ELSE fs[1]

(***************************************************************************)
(* State                                                                   *)
(*   platform  target_os the binary was built for                          *)
(*   dirs      existing directories                                        *)
(*   files     existing regular files                                      *)
(*   doc       content of config.yaml (NoDoc while the file is absent)     *)
(*   pc        position of each invocation in run()                        *)
(*   mem       the WikiConfig value of each invocation                     *)
(*   args      the flag of the command line read last, present or not      *)
(*   hist      what the invocation has done so far: network requests,      *)
(*             archives extracted, npm calls, config.yaml written,         *)
(*             the create decision taken and whether it found the install  *)
(*             intact, how the last download ended, and the teardown       *)
(*             flags that removed something                                *)
(*   result    how the invocation ended, and in which operation            *)
(*   input     the argument of a function checked on its own               *)
(*   output    what that function returned                                 *)
(***************************************************************************)
NoDoc == WikiConfig_new(<<>>)

NoHist == [net |-> <<>>, ext |-> <<>>, npm |-> <<>>, saved |-> FALSE,
           decided |-> "none", had_doc |-> FALSE, intact |-> FALSE, dl |-> "none",
           torn |-> {}]

NoArg == [name |-> "none", present |-> FALSE]

NoResult == [code |-> "none", at |-> "none"]

\* no function is being checked on its own
NoCall == [fn |-> "none"]

NoRet == [status |-> "none"]

Root == replace_home(DirArg)

PluginSpec == <<"fedwiki", "/", "wiki-plugin-x">>

\* config.yaml documents a user may have written by hand before the first run
HandDocs ==
    { [WikiConfig_new(DirArg) EXCEPT !.plugins = [i \in 1..n |-> PluginSpec]] :
        n \in 0..MaxPlugins }

Init ==
    /\ platform \in {"windows", "linux"}
    /\ pc = [p \in Procs |-> "idle"]
    /\ mem = [p \in Procs |-> NoDoc]
    /\ args = [p \in Procs |-> NoArg]
    /\ hist = [p \in Procs |-> NoHist]
    /\ result = [p \in Procs |-> NoResult]
    /\ input = NoCall
    /\ output = NoRet
    /\ \/ /\ dirs = {HomeDir}
          /\ files = {}
          /\ doc = NoDoc
       \/ /\ dirs = {HomeDir, Root}
          /\ files = {join(Root, << <<"config.yaml">> >>)}
          /\ doc \in HandDocs
       \/ /\ dirs = {HomeDir, Root}
          /\ files = {join(Root, <<StaleNode>>)}
          /\ doc = NoDoc

goto(p, l) == pc' = [pc EXCEPT ![p] = l]

\* the invocation ends: Ok(()), Err(_) returned to main, exit(1), or a panic
finish(p, code, at) ==
    /\ pc' = [pc EXCEPT ![p] = "done"]
    /\ result' = [result EXCEPT ![p] = [code |-> code, at |-> at]]

\* a flag of the command line is read: present or not
read_flag(p, name, flag) ==
    args' = [args EXCEPT ![p] = [name |-> name, present |-> flag]]

\* the filesystem a teardown operation leaves is written back; config.yaml
\* holds its document as long as the file is there
commit(a) ==
    /\ dirs' = a.dirs
    /\ files' = a.files
    /\ doc' = IF \E f \in a.files : f[Len(f)] = <<"config.yaml">> THEN doc ELSE NoDoc

(***************************************************************************)
(* run(): configuration source                                             *)
(***************************************************************************)
\* --config <file> or --dir <dir>, or neither; the file given to --config is
\* the config.yaml of the directory.  Each flag of the command line is drawn
\* by the operation that reads it.
load_config(p) ==
    /\ pc[p] = "idle"
    /\ UNCHANGED <<input, output>>
    /\ hist' = [hist EXCEPT ![p] = NoHist]
    /\ args' = [args EXCEPT ![p] = NoArg]
    /\ UNCHANGED <<platform, dirs, files, doc>>
    /\ \E src \in {"config", "dir", "none"} :
        LET config_path == join(replace_home(DirArg), << <<"config.yaml">> >>)
        IN  CASE src = "none" ->
                    /\ finish(p, "exit1", "args")
                    /\ UNCHANGED mem
              [] src = "config" ->
                    IF config_path \in files
                    THEN /\ mem' = [mem EXCEPT ![p] = doc]
                         /\ goto(p, "clean_all")
                         /\ UNCHANGED result
                    ELSE /\ finish(p, "panic", "from_config")
                         /\ UNCHANGED mem
              [] src = "dir" ->
                    /\ mem' = [mem EXCEPT ![p] =
                                 IF config_path \in files THEN doc
                                 ELSE WikiConfig_new(DirArg)]
                    /\ goto(p, "clean_all")
                    /\ UNCHANGED result

(***************************************************************************)
(* Teardown                                                                *)
(***************************************************************************)
\* remove_dir_all(dir) on directories D and files F
removed(dir, D, F) ==
    [dirs |-> remove_dir_all(D, dir), files |-> remove_dir_all(F, dir), ok |-> TRUE]

kept(D, F) == [dirs |-> D, files |-> F, ok |-> TRUE]

\* delete: the root directory goes when config.yaml is in it
delete_fs(c, D, F) ==
    IF ConfigYaml(c) \in F THEN removed(canonical_dir(c), D, F) ELSE kept(D, F)

\* one check-then-delete of a bundle directory that removes the directory
\* the bundle directory lies in
delete_repo_parent(dir, D, F) ==
    IF dir \in D \/ dir \in F
    THEN removed(SubSeq(dir, 1, Len(dir) - 1), D, F)
    ELSE kept(D, F)

\* one check-then-delete of a bundle directory with the check lost:
\* remove_dir_all of a directory that is not there is an error
delete_repo_unchecked(dir, D, F) ==
    IF dir \in D \/ dir \in F
    THEN removed(dir, D, F)
    ELSE [dirs |-> D, files |-> F, ok |-> FALSE]

\* one check-then-delete of a bundle directory, on directories D and files F
delete_repo(dir, D, F) ==
    IF dir \in D \/ dir \in F
    THEN removed(dir, D, F)
    ELSE kept(D, F)

\* delete_wiki: the three bundle directories in turn, up to the first error
delete_wiki_fs(c, D, F) ==
    LET a == delete_repo(wiki_dir(c), D, F)
        b == delete_repo(server_dir(c), a.dirs, a.files)
    IN  IF ~a.ok THEN a
        ELSE IF ~b.ok THEN b
        ELSE delete_repo(client_dir(c), b.dirs, b.files)

\* delete_node that removes the directory the runtime was extracted into
delete_node_fs_all(c, cwd, D, F) ==
    LET node_path == join(cwd, c.node.path)
    IN  IF c.node.path # None /\ (node_path \in D \/ node_path \in F)
        THEN removed(cwd, D, F)
        ELSE kept(D, F)

\* delete_node: node_path is used as it is recorded, so it resolves against
\* the working directory cwd of the process
delete_node_fs(c, cwd, D, F) ==
    LET node_path == join(cwd, c.node.path)
    IN  IF c.node.path # None /\ (node_path \in D \/ node_path \in F)
        THEN removed(node_path, D, F)
        ELSE kept(D, F)

\* the working directories an invocation may be started from
Cwds == {Root, HomeDir}

\* the teardown operation of a flag of the command line
teardown(name, c, cwd, D, F) ==
    CASE name = "clean-all"    -> delete_fs(c, D, F)
      [] name = "clean"        -> delete_wiki_fs(c, D, F)
      [] name = "clean-wiki"   -> delete_repo(wiki_dir(c), D, F)
      [] name = "clean-server" -> delete_repo(server_dir(c), D, F)
      [] name = "clean-client" -> delete_repo(client_dir(c), D, F)
      [] name = "clean-node"   -> delete_node_fs(c, cwd, D, F)

\* one teardown flag is read and its operation applied; an error ends the
\* invocation
delete_one(p, at, next, name) ==
    /\ pc[p] = at
    /\ UNCHANGED <<input, output>>
    /\ UNCHANGED <<platform, mem>>
    /\ \E flag \in BOOLEAN, cwd \in Cwds :
        /\ read_flag(p, name, flag)
        /\ IF flag
           THEN LET a == teardown(name, mem[p], cwd, dirs, files)
                IN  /\ commit(a)
                    /\ hist' = [hist EXCEPT ![p].torn =
                                  IF a.dirs # dirs THEN @ \cup {name} ELSE @]
                    /\ IF a.ok
                       THEN goto(p, next) /\ UNCHANGED result
                       ELSE finish(p, "err", "delete")
           ELSE /\ UNCHANGED <<dirs, files, doc, result, hist>>
                /\ goto(p, next)

delete(p)             == delete_one(p, "clean_all", "clean", "clean-all")
delete_wiki(p)        == delete_one(p, "clean", "clean_wiki", "clean")
delete_wiki_repo(p)   == delete_one(p, "clean_wiki", "clean_server", "clean-wiki")
delete_server_repo(p) == delete_one(p, "clean_server", "clean_client", "clean-server")
delete_client_repo(p) == delete_one(p, "clean_client", "clean_node", "clean-client")
delete_node(p)        == delete_one(p, "clean_node", "create_decision", "clean-node")

(***************************************************************************)
(* Create sequence                                                         *)
(***************************************************************************)
\* everything a successful create sequence of the install c leaves is on
\* disk: config.yaml with the runtime path, the four archives and the four
\* extracted directories
Intact(c) ==
    /\ exists(c)
    /\ c.node.path # None
    /\ join(canonical_dir(c), c.node.path) \in dirs
    /\ {wiki_dir(c), client_dir(c), server_dir(c)} \subseteq dirs
    /\ join(canonical_dir(c), <<node_url(platform)[Len(node_url(platform))]>>) \in files
    /\ {wiki_zip(c), client_zip(c), server_zip(c)} \subseteq files

\* create_decision that looks at --update only: without it the sequence is
\* skipped, whether config.yaml exists or not
create_decision_update_only(p) ==
    /\ pc[p] = "create_decision"
    /\ UNCHANGED <<input, output>>
    /\ UNCHANGED <<platform, dirs, files, doc, mem, result>>
    /\ \E update \in BOOLEAN :
        /\ read_flag(p, "update", update)
        /\ IF update
           THEN /\ goto(p, "create_folder")
                /\ hist' = [hist EXCEPT ![p].decided = "create",
                                         ![p].torn = @ \cap {"clean-all"},
                                         ![p].had_doc = exists(mem[p]),
                                         ![p].intact = Intact(mem[p])]
           ELSE /\ goto(p, "run_decision")
                /\ hist' = [hist EXCEPT ![p].decided = "skip",
                                         ![p].had_doc = exists(mem[p]),
                                         ![p].intact = Intact(mem[p])]

\* create_decision with the existence check lost: the sequence always runs
create_decision_always(p) ==
    /\ pc[p] = "create_decision"
    /\ UNCHANGED <<input, output>>
    /\ UNCHANGED <<platform, dirs, files, doc, mem, result>>
    /\ \E update \in BOOLEAN :
        /\ read_flag(p, "update", update)
        /\ goto(p, "create_folder")
        /\ hist' = [hist EXCEPT ![p].decided = "create",
                                 ![p].torn = @ \cap {"clean-all"},
                                 ![p].had_doc = exists(mem[p]),
                                 ![p].intact = Intact(mem[p])]

create_decision(p) ==
    /\ pc[p] = "create_decision"
    /\ UNCHANGED <<input, output>>
    /\ UNCHANGED <<platform, dirs, files, doc, mem, result>>
    /\ \E update \in BOOLEAN :
        /\ read_flag(p, "update", update)
        /\ IF ~exists(mem[p]) \/ update
           THEN /\ goto(p, "create_folder")
                /\ hist' = [hist EXCEPT ![p].decided = "create",
                                         ![p].torn = @ \cap {"clean-all"},
                                         ![p].had_doc = exists(mem[p]),
                                         ![p].intact = Intact(mem[p])]
           ELSE /\ goto(p, "run_decision")
                /\ hist' = [hist EXCEPT ![p].decided = "skip",
                                         ![p].had_doc = exists(mem[p]),
                                         ![p].intact = Intact(mem[p])]

create_folder(p) ==
    /\ pc[p] = "create_folder"
    /\ UNCHANGED <<input, output>>
    /\ UNCHANGED <<platform, files, doc, mem, args, hist>>
    /\ \/ /\ dirs' = dirs \cup Ancestors(canonical_dir(mem[p]))
          /\ goto(p, "download_node")
          /\ UNCHANGED result
       \/ /\ finish(p, "err", "create_folder")
          /\ UNCHANGED dirs

node_archive(p) == join(canonical_dir(mem[p]), <<node_url(platform)[Len(node_url(platform))]>>)

\* download_node with the existence check lost: it always downloads
download_node_always(p) ==
    /\ pc[p] = "download_node"
    /\ UNCHANGED <<input, output>>
    /\ UNCHANGED <<platform, dirs, files, doc, mem, args, hist, result>>
    /\ goto(p, "get_node")

\* download_node up to its existence check
download_node(p) ==
    /\ pc[p] = "download_node"
    /\ UNCHANGED <<input, output>>
    /\ UNCHANGED <<platform, dirs, files, doc, mem, args, hist, result>>
    /\ IF path_exists(node_archive(p))
       THEN goto(p, "extract_node")
       ELSE goto(p, "get_node")

\* after_get with the download phase cut short: the extraction of the bundles
\* starts once the first bundle archive is there
after_get_early(l) ==
    CASE l = "get_node"   -> "extract_node"
      [] l = "get_wiki"   -> "extract_wiki"
      [] l = "get_client" -> "dl_server"
      [] l = "get_server" -> "extract_wiki"

\* the position reached after each download, and the file it writes
after_get(l) ==
    CASE l = "get_node"   -> "extract_node"
      [] l = "get_wiki"   -> "dl_client"
      [] l = "get_client" -> "dl_server"
      [] l = "get_server" -> "extract_wiki"

dest_file(p) ==
    CASE pc[p] = "get_node"   -> node_archive(p)
      [] pc[p] = "get_wiki"   -> wiki_zip(mem[p])
      [] pc[p] = "get_client" -> client_zip(mem[p])
      [] pc[p] = "get_server" -> server_zip(mem[p])

\* how a download_file call can end: reqwest::get fails (expect panics), the
\* status is not a success (assert panics), reading the body fails (Err),
\* write fails (Err) or everything is written
DownloadOutcomes == {"transport", "status", "body", "write", "ok"}

download_code(o) == IF o \in {"transport", "status"} THEN "panic" ELSE "err"

\* download_file that looks again for its destination and makes no request
\* when the file has appeared
download_file_rechecked(p) ==
    /\ pc[p] \in {"get_node", "get_wiki", "get_client", "get_server"}
    /\ UNCHANGED <<input, output>>
    /\ UNCHANGED <<platform, dirs, doc, args>>
    /\ IF path_exists(dest_file(p))
       THEN /\ goto(p, after_get(pc[p]))
            /\ UNCHANGED <<files, mem, hist, result>>
       ELSE \E o \in DownloadOutcomes :
            /\ hist' = [hist EXCEPT ![p].net = Append(@, dest_file(p)), ![p].dl = o]
            /\ IF o = "ok"
               THEN /\ SubSeq(dest_file(p), 1, Len(dest_file(p)) - 1) \in dirs
                    /\ files' = files \cup {dest_file(p)}
                    /\ mem' = IF pc[p] = "get_node"
                              THEN [mem EXCEPT ![p].node.url = node_url(platform)]
                              ELSE mem
                    /\ goto(p, after_get(pc[p]))
                    /\ UNCHANGED result
               ELSE /\ finish(p, download_code(o), "download_file")
                    /\ UNCHANGED <<files, mem>>

\* download_file that writes what it has received before it looks at the
\* status of the response
download_file_write_first(p) ==
    /\ pc[p] \in {"get_node", "get_wiki", "get_client", "get_server"}
    /\ UNCHANGED <<input, output>>
    /\ UNCHANGED <<platform, dirs, doc, args>>
    /\ \E o \in DownloadOutcomes :
        /\ hist' = [hist EXCEPT ![p].net = Append(@, dest_file(p)), ![p].dl = o]
        /\ SubSeq(dest_file(p), 1, Len(dest_file(p)) - 1) \in dirs
        /\ files' = files \cup {dest_file(p)}
        /\ IF o = "ok"
           THEN /\ mem' = IF pc[p] = "get_node"
                          THEN [mem EXCEPT ![p].node.url = node_url(platform)]
                          ELSE mem
                /\ goto(p, after_get(pc[p]))
                /\ UNCHANGED result
           ELSE /\ finish(p, download_code(o), "download_file")
                /\ UNCHANGED mem

\* download_file: the request, the status assertion and the write.  The
\* caller download_node records the url once the file is written.  A write
\* that fails may have created the file already.
download_file(p) ==
    /\ pc[p] \in {"get_node", "get_wiki", "get_client", "get_server"}
    /\ UNCHANGED <<input, output>>
    /\ UNCHANGED <<platform, dirs, doc, args>>
    /\ \E o \in DownloadOutcomes :
        /\ hist' = [hist EXCEPT ![p].net = Append(@, dest_file(p)), ![p].dl = o]
        /\ CASE o = "ok" ->
                  /\ SubSeq(dest_file(p), 1, Len(dest_file(p)) - 1) \in dirs
                  /\ files' = files \cup {dest_file(p)}
                  /\ mem' = IF pc[p] = "get_node"
                            THEN [mem EXCEPT ![p].node.url = node_url(platform)]
                            ELSE mem
                  /\ goto(p, after_get(pc[p]))
                  /\ UNCHANGED result
             [] o = "write" ->
                  /\ \/ files' = files
                     \/ /\ SubSeq(dest_file(p), 1, Len(dest_file(p)) - 1) \in dirs
                        /\ files' = files \cup {dest_file(p)}
                  /\ finish(p, "err", "download_file")
                  /\ UNCHANGED mem
             [] OTHER ->
                  /\ finish(p, download_code(o), "download_file")
                  /\ UNCHANGED <<files, mem>>

extract_node(p) ==
    /\ pc[p] = "extract_node"
    /\ UNCHANGED <<input, output>>
    /\ UNCHANGED <<platform, doc, args>>
    /\ LET path == first_file(glob(canonical_dir(mem[p])))
       IN  IF path = None
           THEN /\ finish(p, "panic", "extract_node")
                /\ UNCHANGED <<dirs, files, mem, hist>>
           ELSE IF contains(path, ".tar.xz")
           THEN \/ LET out == unpack(NodeTarEntries, canonical_dir(mem[p]), dirs, files)
                   IN  /\ dirs' = out.dirs
                       /\ files' = out.files
                       /\ hist' = [hist EXCEPT ![p].ext = Append(@, path)]
                       /\ goto(p, "dl_wiki")
                       /\ UNCHANGED <<mem, result>>
                \/ /\ finish(p, "err", "unpack")
                   /\ UNCHANGED <<dirs, files, mem, hist>>
           ELSE IF contains(path, ".zip")
           THEN \/ LET out == unzip(path, canonical_dir(mem[p]), dirs, files)
                   IN  /\ out.ok
                       /\ dirs' = out.dirs
                       /\ files' = out.files
                       /\ mem' = [mem EXCEPT ![p].node.path = out.root]
                       /\ hist' = [hist EXCEPT ![p].ext = Append(@, path)]
                       /\ goto(p, "dl_wiki")
                       /\ UNCHANGED result
                \/ /\ finish(p, "panic", "unzip")
                   /\ UNCHANGED <<dirs, files, mem, hist>>
           ELSE /\ finish(p, "err", "extract_node")
                /\ UNCHANGED <<dirs, files, mem, hist>>

\* download_if_needed with the existence check lost: it always downloads
download_if_needed_always(p) ==
    /\ pc[p] \in {"dl_wiki", "dl_client", "dl_server"}
    /\ UNCHANGED <<input, output>>
    /\ UNCHANGED <<platform, dirs, files, doc, mem, args, hist, result>>
    /\ goto(p, CASE pc[p] = "dl_wiki"   -> "get_wiki"
                 [] pc[p] = "dl_client" -> "get_client"
                 [] pc[p] = "dl_server" -> "get_server")

\* download_if_needed up to its existence check, for the three calls of
\* download_wiki
download_if_needed(p) ==
    /\ pc[p] \in {"dl_wiki", "dl_client", "dl_server"}
    /\ UNCHANGED <<input, output>>
    /\ UNCHANGED <<platform, dirs, files, doc, mem, args, hist, result>>
    /\ LET zip_file == CASE pc[p] = "dl_wiki"   -> wiki_zip(mem[p])
                         [] pc[p] = "dl_client" -> client_zip(mem[p])
                         [] pc[p] = "dl_server" -> server_zip(mem[p])
           get      == CASE pc[p] = "dl_wiki"   -> "get_wiki"
                         [] pc[p] = "dl_client" -> "get_client"
                         [] pc[p] = "dl_server" -> "get_server"
       IN  IF path_exists(zip_file)
           THEN goto(p, after_get(get))
           ELSE goto(p, get)

\* the archives extract_wiki opens, in its order
wiki_zips(c) == <<wiki_zip(c), client_zip(c), server_zip(c)>>

\* the filesystem after the first n archives of zs are unzipped into dest_dir
RECURSIVE unzip_all(_, _, _, _, _)
unzip_all(zs, n, dest_dir, D, F) ==
    IF n = 0 THEN [dirs |-> D, files |-> F, ok |-> TRUE]
    ELSE LET before == unzip_all(zs, n - 1, dest_dir, D, F)
             this == unzip(zs[n], dest_dir, before.dirs, before.files)
         IN  [dirs |-> this.dirs, files |-> this.files, ok |-> before.ok /\ this.ok]

\* extract_wiki: the archives are unzipped in order; unzip panics on an
\* archive it cannot open or read
extract_wiki(p) ==
    /\ pc[p] = "extract_wiki"
    /\ UNCHANGED <<input, output>>
    /\ UNCHANGED <<platform, doc, mem, args>>
    /\ \E n \in 0..3 :
        LET zs == wiki_zips(mem[p])
            out == unzip_all(zs, n, canonical_dir(mem[p]), dirs, files)
        IN  /\ \A i \in 1..n : zs[i] \in files
            /\ out.ok
            /\ dirs' = out.dirs
            /\ files' = out.files
            /\ hist' = [hist EXCEPT ![p].ext = @ \o SubSeq(zs, 1, n)]
            /\ IF n = 3
               THEN goto(p, "install_wiki") /\ UNCHANGED result
               ELSE finish(p, "panic", "unzip")

(***************************************************************************)
(* Dependency linker                                                       *)
(***************************************************************************)
\* link_dep(dir): install in dir, then link the client directory into dir
link_dep(c, dir) ==
    << [dir |-> dir, cmd |-> "install", arg |-> None],
       [dir |-> dir, cmd |-> "link", arg |-> client_dir(c)] >>

\* the run_npm calls install_wiki makes, in order
npm_calls(c) ==
    link_dep(c, client_dir(c)) \o link_dep(c, server_dir(c))
        \o << [dir |-> wiki_dir(c), cmd |-> "install", arg |-> None] >>

NpmPcs == <<"npm1", "npm2", "npm3", "npm4", "npm5">>

\* what a spawn of the package manager can come to: the spawn fails when the
\* executable or the working directory is missing; the exit status of the
\* child is whatever the child decides
\* npm_outcomes with the check of the recorded runtime path lost
npm_outcomes_unchecked(c, call) ==
    LET command_path == join(join(canonical_dir(c), c.node.path), <<npm_name(platform)>>)
    IN  IF command_path \in files /\ call.dir \in dirs
        THEN {"spawn_failed", "exit_zero", "exit_nonzero"}
        ELSE {"spawn_failed"}

npm_outcomes(c, call) ==
    LET command_path == join(join(canonical_dir(c), c.node.path), <<npm_name(platform)>>)
    IN  IF c.node.path = None
        THEN {"no_node_path"}
        ELSE IF command_path \in files /\ call.dir \in dirs
        THEN {"spawn_failed", "exit_zero", "exit_nonzero"}
        ELSE {"spawn_failed"}

\* run_npm returns Err only when spawn (or wait) fails: the ExitStatus that
\* wait returns is dropped
run_npm_ok(outcome) == outcome \in {"exit_zero", "exit_nonzero"}

\* the npm calls made so far, with the call added if a spawn was attempted
spawned(calls, call, outcome) ==
    IF outcome = "no_node_path" THEN calls
    ELSE Append(calls, [dir |-> call.dir, cmd |-> call.cmd,
                        arg |-> call.arg, outcome |-> outcome])

\* how run_npm ends the invocation when it does not return Ok
npm_failure(p, outcome) ==
    IF outcome = "no_node_path"
    THEN finish(p, "panic", "run_npm")
    ELSE finish(p, "err", "run_npm")

install_wiki(p) ==
    /\ pc[p] = "install_wiki"
    /\ UNCHANGED <<input, output>>
    /\ UNCHANGED <<platform, dirs, files, doc, mem, args, hist>>
    /\ IF mem[p].node.path = None
       THEN finish(p, "exit1", "install_wiki")
       ELSE goto(p, "npm1") /\ UNCHANGED result

run_npm(p) ==
    /\ UNCHANGED <<input, output>>
    /\ \E i \in 1..Len(NpmPcs) :
        /\ pc[p] = NpmPcs[i]
        /\ LET call == npm_calls(mem[p])[i]
           IN  \E outcome \in npm_outcomes(mem[p], call) :
                /\ hist' = [hist EXCEPT ![p].npm = spawned(@, call, outcome)]
                /\ IF run_npm_ok(outcome)
                   THEN /\ goto(p, IF i < Len(NpmPcs) THEN NpmPcs[i + 1] ELSE "save")
                        /\ UNCHANGED result
                   ELSE npm_failure(p, outcome)
    /\ UNCHANGED <<platform, dirs, files, doc, mem, args>>

save(p) ==
    /\ pc[p] = "save"
    /\ UNCHANGED <<input, output>>
    /\ UNCHANGED <<platform, dirs, mem, args>>
    /\ \/ /\ canonical_dir(mem[p]) \in dirs
          /\ files' = files \cup {ConfigYaml(mem[p])}
          /\ doc' = mem[p]
          /\ hist' = [hist EXCEPT ![p].saved = TRUE]
          /\ goto(p, "run_decision")
          /\ UNCHANGED result
       \/ /\ finish(p, "err", "save")
          /\ UNCHANGED <<files, doc, hist>>

(***************************************************************************)
(* Run                                                                     *)
(***************************************************************************)
run_decision(p) ==
    /\ pc[p] = "run_decision"
    /\ UNCHANGED <<input, output>>
    /\ UNCHANGED <<platform, dirs, files, doc, mem, hist>>
    /\ \E run \in BOOLEAN :
        /\ read_flag(p, "run", run)
        /\ IF run
           THEN goto(p, "run_wiki") /\ UNCHANGED result
           ELSE finish(p, "ok", "run")

run_wiki(p) ==
    /\ pc[p] = "run_wiki"
    /\ UNCHANGED <<input, output>>
    /\ UNCHANGED <<platform, dirs, files, doc, mem, args>>
    /\ LET call == [dir |-> wiki_dir(mem[p]), cmd |-> "start", arg |-> None]
       IN  \E outcome \in npm_outcomes(mem[p], call) :
            /\ hist' = [hist EXCEPT ![p].npm = spawned(@, call, outcome)]
            /\ IF run_npm_ok(outcome)
               THEN finish(p, "ok", "run")
               ELSE npm_failure(p, outcome)

\* the process is gone; the next invocation starts from what is on disk
exit(p) ==
    /\ pc[p] = "done"
    /\ UNCHANGED <<input, output>>
    /\ pc' = [pc EXCEPT ![p] = "idle"]
    /\ mem' = [mem EXCEPT ![p] = NoDoc]
    /\ args' = [args EXCEPT ![p] = NoArg]
    /\ hist' = [hist EXCEPT ![p] = NoHist]
    /\ result' = [result EXCEPT ![p] = NoResult]
    /\ UNCHANGED <<platform, dirs, files, doc>>

step(p) ==
    \/ load_config(p)
    \/ delete(p)
    \/ delete_wiki(p)
    \/ delete_wiki_repo(p)
    \/ delete_server_repo(p)
    \/ delete_client_repo(p)
    \/ delete_node(p)
    \/ create_decision(p)
    \/ create_folder(p)
    \/ download_node(p)
    \/ download_file(p)
    \/ extract_node(p)
    \/ download_if_needed(p)
    \/ extract_wiki(p)
    \/ install_wiki(p)
    \/ run_npm(p)
    \/ save(p)
    \/ run_decision(p)
    \/ run_wiki(p)
    \/ exit(p)

\* one invocation at a time
Next == step(1)

Spec == Init /\ [][Next]_vars

(***************************************************************************)
(* Properties                                                              *)
(***************************************************************************)
LinkerCmds == {"install", "link"}

\* the linker calls (install / link) among the npm calls of an invocation
linker_calls(p) == SelectSeq(hist[p].npm, LAMBDA c : c.cmd \in LinkerCmds)

\* C1: when the create decision is reached with config.yaml present and
\* --update absent, the create sequence is skipped, and the invocation makes
\* no download, no extraction, no install/link call and does not write
\* config.yaml; otherwise the create sequence is entered.
C1_CreateDecision ==
    /\ [][\A p \in Procs :
            (pc[p] = "create_decision" /\ pc'[p] # pc[p]) =>
                IF ConfigYaml(mem[p]) \in files /\ ~args'[p].present
                THEN pc'[p] = "run_decision" /\ hist'[p].decided = "skip"
                ELSE pc'[p] = "create_folder" /\ hist'[p].decided = "create"]_vars
    /\ [](\A p \in Procs :
            hist[p].decided = "skip" =>
                /\ hist[p].net = <<>>
                /\ hist[p].ext = <<>>
                /\ linker_calls(p) = <<>>
                /\ ~hist[p].saved)

C1_Witness ==
    \E p \in Procs :
        /\ pc[p] = "done"
        /\ result[p].code = "ok"
        /\ hist[p].decided = "skip"
        /\ ConfigYaml(mem[p]) \in files

\* the operations of the create sequence named by C2 whose failure ends it
CreateSteps == {"create_folder", "download_file", "extract_node", "unpack", "unzip"}

\* a step of the create sequence has failed in this invocation: an operation
\* returned an error or panicked, or a linker subprocess could not be spawned
\* or exited with a non-zero status
StepFailed(p) ==
    \/ result[p].at \in CreateSteps
    \/ \E i \in DOMAIN hist[p].npm :
        /\ hist[p].npm[i].cmd \in LinkerCmds
        /\ hist[p].npm[i].outcome # "exit_zero"

\* C2: if any step of the create sequence fails, the invocation does not
\* write config.yaml.
C2_NoSaveAfterFailure ==
    \A p \in Procs : StepFailed(p) => ~hist[p].saved

\* C3: from a directory without config.yaml, when every download, extraction
\* and subprocess call succeeds, the create sequence completes and writes a
\* config.yaml whose runtime record has an extracted path, for the zip and
\* the tar distribution.
C3_FreshCreateCompletes ==
    \A p \in Procs :
        ( /\ pc[p] = "done"
          /\ hist[p].decided = "create"
          /\ ~hist[p].had_doc
          /\ result[p].at \notin CreateSteps \cup {"run_npm", "save"}
          /\ \A i \in DOMAIN hist[p].npm : hist[p].npm[i].outcome = "exit_zero" )
        => /\ hist[p].saved
           /\ ConfigYaml(mem[p]) \in files
           /\ doc.node.path # None

\* C4: a linker subprocess that cannot be spawned or exits with a non-zero
\* status is the last linker call of the invocation, which ends in an error
\* without writing config.yaml.
C4_LinkerFailureIsFatal ==
    \A p \in Procs : \A i \in DOMAIN hist[p].npm :
        (hist[p].npm[i].cmd \in LinkerCmds /\ hist[p].npm[i].outcome # "exit_zero")
        => /\ i = Len(hist[p].npm)
           /\ pc[p] = "done"
           /\ result[p].code # "ok"
           /\ ~hist[p].saved

\* the extracted root of the runtime archive of a target_os
NodeArchiveRoot(os) ==
    IF os = "windows" THEN sanitized_name(NodeZipEntries[1].name)
    ELSE sanitized_name(NodeTarEntries[1].name)

\* C5: when the runtime extraction step returns success, the runtime
\* record's path is the extracted root of the runtime archive, for the zip
\* and the tar distribution.
C5_ExtractRecordsPath ==
    [][\A p \in Procs :
        (pc[p] = "extract_node" /\ pc'[p] = "dl_wiki")
        => mem'[p].node.path = NodeArchiveRoot(platform)]_vars

\* C6: a successful create sequence has downloaded and extracted the archive
\* of every plugin spec of the install state.
C6_PluginsProvisioned ==
    \A p \in Procs :
        hist[p].saved =>
            \A i \in DOMAIN mem[p].plugins :
                /\ join(canonical_dir(mem[p]), Branch_zip(mem[p].plugins[i])) \in files
                /\ join(canonical_dir(mem[p]), Branch_dir(mem[p].plugins[i])) \in dirs

\* the paths of a set that lie in one of the three bundle directories
in_bundles(c, paths) ==
    { x \in paths : \E d \in {wiki_dir(c), client_dir(c), server_dir(c)} : IsPrefix(d, x) }

\* C7: --clean-node on a provisioned install removes the runtime directory
\* under the root directory and leaves the bundle directories and
\* config.yaml as they were.
C7_CleanNode ==
    [][\A p \in Procs :
        ( /\ pc[p] = "clean_node" /\ pc'[p] = "create_decision"
          /\ args'[p].present
          /\ ConfigYaml(mem[p]) \in files
          /\ mem[p].node.path # None )
        => /\ join(canonical_dir(mem[p]), mem[p].node.path) \notin dirs'
           /\ in_bundles(mem[p], dirs') = in_bundles(mem[p], dirs)
           /\ in_bundles(mem[p], files') = in_bundles(mem[p], files)
           /\ ConfigYaml(mem[p]) \in files'
           /\ doc' = doc]_vars

\* C8: after --clean-all nothing is left of the root directory, in every
\* state in which the root directory exists.
C8_CleanAll ==
    [][\A p \in Procs :
        ( /\ pc[p] = "clean_all" /\ pc'[p] = "clean"
          /\ args'[p].present
          /\ canonical_dir(mem[p]) \in dirs )
        => \A x \in dirs' \cup files' : ~IsPrefix(canonical_dir(mem[p]), x)]_vars

\* C9: the run operation panics without spawning a subprocess when the
\* runtime record holds no path, and spawns the start script otherwise.
C9_RunNeedsNodePath ==
    [][\A p \in Procs :
        (pc[p] = "run_wiki" /\ pc'[p] # pc[p]) =>
            IF mem[p].node.path = None
            THEN /\ hist'[p].npm = hist[p].npm
                 /\ result'[p].code = "panic"
            ELSE /\ Len(hist'[p].npm) = Len(hist[p].npm) + 1
                 /\ hist'[p].npm[Len(hist'[p].npm)].cmd = "start"
                 /\ hist'[p].npm[Len(hist'[p].npm)].dir = wiki_dir(mem[p])]_vars

C9_Witness ==
    \E p \in Procs :
        /\ pc[p] = "done"
        /\ args[p] = [name |-> "run", present |-> TRUE]
        /\ mem[p].node.path = None
        /\ result[p] = [code |-> "panic", at |-> "run_npm"]
        /\ hist[p].npm = <<>>

\* the destination a download check is about, and where it goes on a skip
check_dest(p) ==
    CASE pc[p] = "download_node" -> node_archive(p)
      [] pc[p] = "dl_wiki"       -> wiki_zip(mem[p])
      [] pc[p] = "dl_client"     -> client_zip(mem[p])
      [] pc[p] = "dl_server"     -> server_zip(mem[p])

check_skip(p) ==
    CASE pc[p] = "download_node" -> "extract_node"
      [] pc[p] = "dl_wiki"       -> "dl_client"
      [] pc[p] = "dl_client"     -> "dl_server"
      [] pc[p] = "dl_server"     -> "extract_wiki"

\* C10: a fetch whose destination exists makes no network request, writes
\* nothing and succeeds; a fetch that got its file leaves the destination in
\* place, so that no destination is requested twice.
C10_FetchSkipsExisting ==
    /\ [][\A p \in Procs :
            ( /\ pc[p] \in {"download_node", "dl_wiki", "dl_client", "dl_server"}
              /\ pc'[p] # pc[p]
              /\ path_exists(check_dest(p)) )
            => /\ pc'[p] = check_skip(p)
               /\ hist'[p].net = hist[p].net
               /\ files' = files /\ dirs' = dirs
               /\ result'[p] = result[p]]_vars
    /\ [][\A p \in Procs :
            ( /\ pc[p] \in {"get_node", "get_wiki", "get_client", "get_server"}
              /\ pc'[p] \notin {pc[p], "done"} )
            => dest_file(p) \in files']_vars
    /\ [](\A p \in Procs : \A i, j \in DOMAIN hist[p].net :
            hist[p].net[i] = hist[p].net[j] => i = j)

C10_Witness ==
    \E p \in Procs :
        /\ pc[p] = "dl_client"
        /\ hist[p].decided = "create"
        /\ hist[p].net = <<>>
        /\ wiki_zip(mem[p]) \in files

Range(f) == { f[i] : i \in DOMAIN f }

\* the positions of the create sequence from which a step has been passed
AfterFolder == {"download_node", "get_node", "extract_node"}

BundlePcs == {"dl_wiki", "get_wiki", "dl_client", "get_client", "dl_server",
              "get_server", "extract_wiki"}

LinkerPcs == {"install_wiki", "npm1", "npm2", "npm3", "npm4", "npm5"}

\* C16: the steps of the create sequence start in the order root directory,
\* runtime download, runtime extraction, bundles, linker, save, each only
\* after the one before it succeeded: the root directory is there when the
\* runtime is provisioned, the runtime archive when it is extracted, the
\* runtime is extracted when the bundles are provisioned, the bundles are
\* extracted when the linker runs, and every linker subprocess has exited
\* with status zero when config.yaml is written.
C16_StepsInOrder ==
    \A p \in Procs :
        /\ pc[p] \in AfterFolder \cup BundlePcs \cup LinkerPcs \cup {"save"}
            => canonical_dir(mem[p]) \in dirs
        /\ pc[p] = "extract_node" => node_archive(p) \in files
        /\ pc[p] \in BundlePcs \cup LinkerPcs \cup {"save"}
            => Len(hist[p].ext) >= 1 /\ hist[p].ext[1] \notin Range(wiki_zips(mem[p]))
        /\ pc[p] \in LinkerPcs \cup {"save"}
            => hist[p].ext = <<hist[p].ext[1]>> \o wiki_zips(mem[p])
        /\ (pc[p] = "save" \/ hist[p].saved)
            => /\ Len(linker_calls(p)) = 5
               /\ \A i \in 1..5 : linker_calls(p)[i].outcome = "exit_zero"

\* the linker calls in the order and with the working directories of C17
LinkerOrder(c) ==
    << [dir |-> client_dir(c), cmd |-> "install", arg |-> None],
       [dir |-> server_dir(c), cmd |-> "install", arg |-> None],
       [dir |-> wiki_dir(c), cmd |-> "link", arg |-> client_dir(c)],
       [dir |-> wiki_dir(c), cmd |-> "link", arg |-> server_dir(c)],
       [dir |-> wiki_dir(c), cmd |-> "install", arg |-> None] >>

\* C17: the linker calls of an invocation are, in order: install in the
\* client, install in the server, link the client in the core app, link the
\* server in the core app, install in the core app.
C17_LinkerOrder ==
    \A p \in Procs : \A i \in DOMAIN linker_calls(p) :
        /\ i <= Len(LinkerOrder(mem[p]))
        /\ [dir |-> linker_calls(p)[i].dir, cmd |-> linker_calls(p)[i].cmd,
            arg |-> linker_calls(p)[i].arg] = LinkerOrder(mem[p])[i]

\* C18: when runtime provisioning has succeeded the runtime record holds the
\* url of the runtime archive, whether the archive was downloaded or found
\* on disk.
C18_NodeUrlRecorded ==
    [][\A p \in Procs :
        (pc[p] = "extract_node" /\ pc'[p] = "dl_wiki")
        => mem'[p].node.url = node_url(platform)]_vars

TeardownPcs == {"clean_all", "clean", "clean_wiki", "clean_server", "clean_client",
                "clean_node"}

\* what a teardown operation is to remove is not on disk
target_absent(name, c, cwd, D, F) ==
    CASE name = "clean-all"    -> canonical_dir(c) \notin D
      [] name = "clean"        -> {wiki_dir(c), server_dir(c), client_dir(c)} \cap D = {}
      [] name = "clean-wiki"   -> wiki_dir(c) \notin D
      [] name = "clean-server" -> server_dir(c) \notin D
      [] name = "clean-client" -> client_dir(c) \notin D
      [] name = "clean-node"   -> c.node.path = None \/ join(cwd, c.node.path) \notin D

\* C13: every teardown operation is idempotent: applied to the filesystem it
\* has left it succeeds and changes nothing, and applied when its target is
\* absent it succeeds and changes nothing.
C13_TeardownIdempotent ==
    [][\A p \in Procs : \A cwd \in Cwds :
        LET name  == args'[p].name
            once  == teardown(name, mem[p], cwd, dirs, files)
            twice == teardown(name, mem[p], cwd, once.dirs, once.files)
        IN  ( /\ pc[p] \in TeardownPcs /\ pc'[p] # pc[p]
              /\ args'[p].present
              /\ dirs' = once.dirs /\ files' = once.files )
            => /\ once.ok /\ twice = once
               /\ target_absent(name, mem[p], cwd, dirs, files)
                    => /\ dirs' = dirs /\ files' = files
                       /\ pc'[p] # "done"]_vars

\* --clean-wiki has been applied and the core-app directory of a provisioned
\* install is gone
C13_Witness ==
    \E p \in Procs :
        /\ pc[p] = "clean_server"
        /\ args[p] = [name |-> "clean-wiki", present |-> TRUE]
        /\ wiki_dir(mem[p]) \notin dirs
        /\ server_dir(mem[p]) \in dirs
        /\ client_dir(mem[p]) \in dirs

\* the bundle archives an invocation has opened for extraction
bundles_extracted(p) ==
    { hist[p].ext[i] : i \in DOMAIN hist[p].ext } \cap
        {wiki_zip(mem[p]), client_zip(mem[p]), server_zip(mem[p])}

\* C19: an invocation extracts a bundle archive only when the archives of
\* all three bundles are on disk; an invocation in which a download failed
\* has extracted no bundle archive; and a bundle archive is requested only
\* when it is not on disk.
C19_DownloadsBeforeExtraction ==
    \A p \in Procs :
        /\ bundles_extracted(p) # {}
            => {wiki_zip(mem[p]), client_zip(mem[p]), server_zip(mem[p])} \subseteq files
        /\ (pc[p] = "done" /\ result[p].at = "download_file")
            => bundles_extracted(p) = {}
        /\ pc[p] \in {"get_wiki", "get_client", "get_server"}
            => /\ ~path_exists(dest_file(p))
               /\ bundles_extracted(p) = {}

\* the download of the client archive failed in an invocation that found the
\* archive of the core app on disk: nothing of the bundles is extracted
C19_Witness ==
    \E p \in Procs :
        /\ pc[p] = "done"
        /\ result[p].at = "download_file"
        /\ hist[p].net = <<client_zip(mem[p])>>
        /\ wiki_zip(mem[p]) \in files
        /\ bundles_extracted(p) = {}
        /\ wiki_dir(mem[p]) \notin dirs

\* the linker calls of an invocation without their outcomes
linker_made(p) ==
    [i \in DOMAIN linker_calls(p) |->
        [dir |-> linker_calls(p)[i].dir, cmd |-> linker_calls(p)[i].cmd,
         arg |-> linker_calls(p)[i].arg]]

\* C11: a create sequence entered with --update on an install of which
\* config.yaml, every archive and every extracted directory are on disk
\* makes no download, starts the linker, and has made every linker call
\* again when it comes to write config.yaml.
C11_SecondPassNoDownloads ==
    \A p \in Procs :
        (hist[p].decided = "create" /\ hist[p].intact) =>
            /\ hist[p].net = <<>>
            /\ pc[p] \notin {"get_node", "get_wiki", "get_client", "get_server"}
            /\ pc[p] = "install_wiki" => mem[p].node.path # None
            /\ (pc[p] = "save" \/ hist[p].saved) => linker_made(p) = npm_calls(mem[p])
            /\ (pc[p] = "done" /\ result[p].code = "ok") => hist[p].saved

\* a second pass over an intact install has ended well: no download, the
\* five linker calls made, config.yaml written again
C11_Witness ==
    \E p \in Procs :
        /\ pc[p] = "done"
        /\ result[p].code = "ok"
        /\ hist[p].decided = "create"
        /\ hist[p].intact
        /\ hist[p].net = <<>>
        /\ Len(linker_calls(p)) = 5
        /\ hist[p].saved

GetPcs == {"get_node", "get_wiki", "get_client", "get_server"}

\* C21: a download that meets a transport failure or a non-success status
\* ends the invocation in failure and creates nothing, so a destination that
\* a download has created comes from a complete successful response; and a
\* download whose destination is not on disk makes the request.
C21_FailedDownloadWritesNothing ==
    /\ [][\A p \in Procs :
            (pc[p] \in GetPcs /\ pc'[p] # pc[p]) =>
                /\ hist'[p].net = Append(hist[p].net, dest_file(p))
                /\ hist'[p].dl \in {"transport", "status", "body"}
                    => /\ files' = files /\ dirs' = dirs
                       /\ pc'[p] = "done"
                       /\ result'[p].code \in {"panic", "err"}
                /\ (dest_file(p) \in files' /\ dest_file(p) \notin files)
                    => hist'[p].dl \in {"ok", "write"}]_vars
    /\ [][\A p \in Procs :
            ( /\ pc[p] \in {"download_node", "dl_wiki", "dl_client", "dl_server"}
              /\ pc'[p] # pc[p]
              /\ ~path_exists(check_dest(p)) )
            => pc'[p] \in GetPcs /\ dest_file(p)' = check_dest(p)]_vars

\* the download of the runtime archive got a non-success status: the
\* invocation has panicked and the archive is not on disk
C21_Witness ==
    \E p \in Procs :
        /\ pc[p] = "done"
        /\ result[p] = [code |-> "panic", at |-> "download_file"]
        /\ hist[p].dl = "status"
        /\ hist[p].net = <<join(canonical_dir(mem[p]),
                                 <<node_url(platform)[Len(node_url(platform))]>>)>>
        /\ join(canonical_dir(mem[p]),
                <<node_url(platform)[Len(node_url(platform))]>>) \notin files

\* C22: the archive the runtime extraction of an invocation opens is the
\* archive its download step targeted, whatever the root directory held
\* before.
C22_ExtractsDownloadedArchive ==
    \A p \in Procs :
        hist[p].ext # <<>> => hist[p].ext[1] = node_archive(p)

\* the bundle directory each single-bundle teardown flag names
repo_target(name, c) ==
    CASE name = "clean-wiki"   -> wiki_dir(c)
      [] name = "clean-server" -> server_dir(c)
      [] name = "clean-client" -> client_dir(c)

\* the paths of a set that do not lie in the directory d
outside(d, paths) == { x \in paths : ~IsPrefix(d, x) }

\* C23: the teardown of one bundle directory removes that directory and
\* nothing else: every path outside it (the other bundle directories, the
\* runtime directory, the archives, config.yaml), the document of
\* config.yaml and the install state in memory are as before.
C23_BundleTeardownFrame ==
    [][\A p \in Procs :
        ( /\ pc[p] \in {"clean_wiki", "clean_server", "clean_client"}
          /\ pc'[p] # pc[p]
          /\ args'[p].present )
        => LET target == repo_target(args'[p].name, mem[p])
           IN  /\ dirs' = outside(target, dirs)
               /\ files' = outside(target, files)
               /\ \A d \in {wiki_dir(mem[p]), server_dir(mem[p]), client_dir(mem[p])} \ {target} :
                    /\ d \in dirs' <=> d \in dirs
                    /\ ~IsPrefix(target, d)
               /\ ConfigYaml(mem[p]) \in files' <=> ConfigYaml(mem[p]) \in files
               /\ \A z \in Range(wiki_zips(mem[p])) : z \in files' <=> z \in files
               /\ doc' = doc
               /\ mem' = mem
               /\ pc'[p] # "done"]_vars

\* --clean-server has been applied to a provisioned install: the server
\* directory is gone, and the other bundles, the archives and config.yaml
\* are there
C23_Witness ==
    \E p \in Procs :
        /\ pc[p] = "clean_client"
        /\ args[p] = [name |-> "clean-server", present |-> TRUE]
        /\ server_dir(mem[p]) \notin dirs
        /\ {wiki_dir(mem[p]), client_dir(mem[p])} \subseteq dirs
        /\ Range(wiki_zips(mem[p])) \subseteq files
        /\ ConfigYaml(mem[p]) \in files
        /\ mem[p].node.path # None
        /\ join(canonical_dir(mem[p]), mem[p].node.path) \in dirs

SelectivePcs == {"clean", "clean_wiki", "clean_server", "clean_client", "clean_node"}

\* the directories a selective teardown flag is to remove, for the install c
\* under its root directory
torn_targets(name, c) ==
    CASE name = "clean"        -> {wiki_dir(c), server_dir(c), client_dir(c)}
      [] name = "clean-wiki"   -> {wiki_dir(c)}
      [] name = "clean-server" -> {server_dir(c)}
      [] name = "clean-client" -> {client_dir(c)}
      [] name = "clean-node"   -> {join(canonical_dir(c), c.node.path)}

\* C24: a selective teardown leaves config.yaml and its document as they
\* are; the create decision that follows it without --update skips the
\* create sequence; and in the rest of that invocation the removed
\* directories stay removed while config.yaml still records them.
C24_SelectiveTeardownKeepsConfig ==
    /\ [][\A p \in Procs :
            (pc[p] \in SelectivePcs /\ pc'[p] # pc[p] /\ args'[p].present) =>
                /\ ConfigYaml(mem[p]) \in files => ConfigYaml(mem[p]) \in files'
                /\ doc' = doc
                /\ mem' = mem]_vars
    /\ [][\A p \in Procs :
            ( /\ pc[p] = "create_decision" /\ pc'[p] # pc[p]
              /\ hist[p].torn # {}
              /\ ConfigYaml(mem[p]) \in files
              /\ ~args'[p].present )
            => pc'[p] = "run_decision" /\ hist'[p].decided = "skip"]_vars
    /\ [](\A p \in Procs :
            (hist[p].decided = "skip" /\ hist[p].torn # {}) =>
                /\ ConfigYaml(mem[p]) \in files
                /\ doc = mem[p]
                /\ \A name \in hist[p].torn : \A d \in torn_targets(name, doc) :
                        d \notin dirs)

\* an invocation with --clean-node and without --update has ended well: the
\* runtime directory is gone and config.yaml still records its path
C24_Witness ==
    \E p \in Procs :
        /\ pc[p] = "done"
        /\ result[p].code = "ok"
        /\ hist[p].decided = "skip"
        /\ "clean-node" \in hist[p].torn
        /\ ConfigYaml(mem[p]) \in files
        /\ doc.node.path # None
        /\ join(canonical_dir(doc), doc.node.path) \notin dirs

\* C26: in an invocation every teardown precedes the create decision and the
\* start of the wiki comes last: nothing is removed outside the teardown
\* steps, no teardown step is left once the decision is taken, a create
\* decision that finds no config.yaml enters the create sequence, and the
\* start call is the last call of the invocation; so an invocation that has
\* ended without error has config.yaml under its root directory.
C26_EndsWithConfig ==
    /\ [][(~(dirs \subseteq dirs') \/ ~(files \subseteq files'))
            => \E p \in Procs : pc[p] \in TeardownPcs /\ pc'[p] # pc[p]]_vars
    /\ [][\A p \in Procs :
            (pc[p] = "create_decision" /\ pc'[p] # pc[p] /\ ~exists(mem[p]))
            => pc'[p] = "create_folder"]_vars
    /\ [](\A p \in Procs :
            /\ hist[p].decided # "none" => pc[p] \notin TeardownPcs \cup {"create_decision"}
            /\ pc[p] \in TeardownPcs \cup {"create_decision"}
                => hist[p].net = <<>> /\ hist[p].ext = <<>> /\ hist[p].npm = <<>>
            /\ \A i \in DOMAIN hist[p].npm :
                hist[p].npm[i].cmd = "start" => i = Len(hist[p].npm) /\ pc[p] = "done"
            /\ (pc[p] = "done" /\ result[p].code = "ok")
                => /\ ConfigYaml(mem[p]) \in files
                   /\ IsPrefix(canonical_dir(mem[p]), ConfigYaml(mem[p])))

\* an invocation with --clean-all on an install has removed it, has run a
\* fresh create sequence and has ended well with config.yaml written
C26_Witness ==
    \E p \in Procs :
        /\ pc[p] = "done"
        /\ result[p].code = "ok"
        /\ "clean-all" \in hist[p].torn
        /\ hist[p].decided = "create"
        /\ ~hist[p].had_doc
        /\ hist[p].saved
        /\ ConfigYaml(mem[p]) \in files

(***************************************************************************)
(* Two invocations at once                                                 *)
(***************************************************************************)
\* two invocations started with --dir and no other flag on a machine without
\* an install have both come to their create sequence
InitRace ==
    /\ platform \in {"windows", "linux"}
    /\ dirs = {HomeDir}
    /\ files = {}
    /\ doc = NoDoc
    /\ pc = [p \in Procs |-> "create_folder"]
    /\ mem = [p \in Procs |-> WikiConfig_new(DirArg)]
    /\ args = [p \in Procs |-> [name |-> "update", present |-> FALSE]]
    /\ hist = [p \in Procs |-> [NoHist EXCEPT !.decided = "create"]]
    /\ result = [p \in Procs |-> NoResult]
    /\ input = NoCall
    /\ output = NoRet

\* the steps of create_wiki up to the linker
provision(p) ==
    \/ create_folder(p)
    \/ download_node(p)
    \/ download_file(p)
    \/ extract_node(p)
    \/ download_if_needed(p)
    \/ extract_wiki(p)

\* the processes are scheduled by the operating system, in any order
NextRace == \E p \in Procs : provision(p)

SpecRace == InitRace /\ [][NextRace]_vars

\* C25: the existence check and the download are two steps: an invocation
\* goes on to a download only when its check found the destination absent,
\* the download then makes its request whether or not the destination has
\* appeared since, and no invocation requests a destination twice; so an
\* invocation is about to download a file that is on disk, or two
\* invocations have requested one destination, only when another invocation
\* came between a check and its download.
C25_CheckThenAct ==
    /\ [][\A p \in Procs :
            ( /\ pc[p] \in {"download_node", "dl_wiki", "dl_client", "dl_server"}
              /\ pc'[p] \in GetPcs )
            => ~path_exists(check_dest(p))]_vars
    /\ [][\A p \in Procs :
            (pc[p] \in GetPcs /\ pc'[p] # pc[p])
            => hist'[p].net = Append(hist[p].net, dest_file(p))]_vars
    /\ [](\A p \in Procs : \A i, j \in DOMAIN hist[p].net :
            hist[p].net[i] = hist[p].net[j] => i = j)
    /\ [](\A p \in Procs :
            (pc[p] \in GetPcs /\ path_exists(dest_file(p)))
            => \E q \in Procs \ {p} : dest_file(p) \in Range(hist[q].net))

\* both invocations passed the check of the runtime archive before either
\* wrote it, and both have downloaded and written it
C25_Witness ==
    /\ hist[1].net = <<node_archive(1)>>
    /\ hist[2].net = <<node_archive(2)>>
    /\ node_archive(1) = node_archive(2)
    /\ hist[1].dl = "ok" /\ hist[2].dl = "ok"
    /\ pc[1] = "extract_node" /\ pc[2] = "extract_node"
    /\ node_archive(1) \in files

(***************************************************************************)
(* Branch, on its own                                                      *)
(***************************************************************************)
\* the sequences over S of length at most n
SeqsUpTo(S, n) == UNION { [1..k -> S] : k \in 0..n }

\* the characters branch specs are made of
SpecChars == {"a", "b", "/", ":"}

\* everything but input and output stays as it is in the pure specifications
Idle ==
    /\ platform = "windows"
    /\ dirs = {}
    /\ files = {}
    /\ doc = NoDoc
    /\ pc = [p \in Procs |-> "idle"]
    /\ mem = [p \in Procs |-> NoDoc]
    /\ args = [p \in Procs |-> NoArg]
    /\ hist = [p \in Procs |-> NoHist]
    /\ result = [p \in Procs |-> NoResult]

InitBranch ==
    /\ Idle
    /\ \E path_spec \in SeqsUpTo(SpecChars, MaxSpecLen) :
        input = [fn |-> "Branch", path_spec |-> path_spec]
    /\ output = NoRet

\* url(), dir() and zip() of a Branch, each of which calls user_repo_branch
Branch_resolve ==
    /\ output = NoRet
    /\ output' = IF user_repo_branch(input.path_spec).ok
                 THEN [status |-> "ok",
                       url |-> Branch_url(input.path_spec),
                       dir |-> Branch_dir(input.path_spec),
                       zip |-> Branch_zip(input.path_spec)]
                 ELSE [status |-> "panic", url |-> <<>>, dir |-> <<>>, zip |-> <<>>]
    /\ UNCHANGED <<platform, dirs, files, doc, pc, mem, args, hist, result, input>>

NextBranch == Branch_resolve

SpecBranch == InitBranch /\ [][NextBranch]_vars

\* the part of a spec before its first ':', and the place of its first '/'
owner_repo(path_spec) ==
    LET c == find(path_spec, ":", 1)
    IN  IF c = 0 THEN path_spec ELSE SubSeq(path_spec, 1, c - 1)

first_slash(path_spec) == find(owner_repo(path_spec), "/", 1)

\* no '/', nothing before the '/', or nothing after it
Malformed(path_spec) ==
    \/ first_slash(path_spec) = 0
    \/ first_slash(path_spec) = 1
    \/ first_slash(path_spec) = Len(owner_repo(path_spec))

\* C14: a branch spec whose owner or repo segment is missing or empty fails
\* to resolve: no url, directory name or archive name is produced for it.
C14_MalformedSpecFails ==
    (output.status # "none" /\ Malformed(input.path_spec)) => output.status = "panic"

\* owner/repo: no ':', one '/', something on both sides of it
OwnerRepoForm(path_spec) ==
    /\ find(path_spec, ":", 1) = 0
    /\ ~Malformed(path_spec)
    /\ find(path_spec, "/", first_slash(path_spec) + 1) = 0

\* the last n tokens of a string
suffix(str, n) == SubSeq(str, Len(str) - n + 1, Len(str))

\* C15: a spec owner/repo without a branch part resolves with branch master:
\* directory repo-master, archive repo-master.zip, url .../archive/master.zip.
C15_DefaultBranchMaster ==
    (output.status # "none" /\ OwnerRepoForm(input.path_spec)) =>
        LET repo == SubSeq(input.path_spec, first_slash(input.path_spec) + 1,
                           Len(input.path_spec))
        IN  /\ output.status = "ok"
            /\ output.dir = << repo \o <<"-", "master">> >>
            /\ output.zip = << repo \o <<"-", "master", ".zip">> >>
            /\ Len(output.url) >= 3
            /\ suffix(output.url, 3) = <<"/archive/", "master", ".zip">>

C15_Witness ==
    /\ input = [fn |-> "Branch", path_spec |-> <<"a", "/", "b">>]
    /\ output.status = "ok"
    /\ output.dir = << <<"b", "-", "master">> >>

(***************************************************************************)
(* unzip, on its own                                                       *)
(***************************************************************************)
Dest == << <<"dest">> >>

\* the entries archives are made of: a directory, a file in it, and a file
\* at the top, once under a name that climbs out of the destination
EntryPool ==
    { [name |-> << <<"a">> >>, is_dir |-> TRUE],
      [name |-> << <<"a">>, <<"x">> >>, is_dir |-> FALSE],
      [name |-> << <<"b">> >>, is_dir |-> FALSE],
      [name |-> << <<"..">>, <<"b">> >>, is_dir |-> FALSE] }

\* what the destination may hold before the call: a as a directory, with or
\* without a/x, or a as a regular file, or nothing; b or not
DestBefore ==
    { [dirs |-> {Dest} \cup da, files |-> fa \cup fb] :
        da \in {{}, {join(Dest, << <<"a">> >>)}},
        fa \in {{}, {join(Dest, << <<"a">> >>)}, {join(Dest, << <<"a">>, <<"x">> >>)}},
        fb \in {{}, {join(Dest, << <<"b">> >>)}} }

InitZip ==
    /\ Idle
    /\ \E entries \in SeqsUpTo(EntryPool, MaxEntries), fs \in DestBefore :
        /\ (join(Dest, << <<"a">> >>) \in fs.files) => fs.dirs = {Dest}
        /\ (join(Dest, << <<"a">>, <<"x">> >>) \in fs.files) => fs.dirs # {Dest}
        /\ input = [fn |-> "unzip", entries |-> entries, dirs |-> fs.dirs, files |-> fs.files]
    /\ output = NoRet

unzip_call ==
    /\ output = NoRet
    /\ LET out == unzip_archive(input.entries, Dest, input.dirs, input.files)
       IN  output' = [status |-> IF out.ok THEN "ok" ELSE "failed",
                      dirs |-> out.dirs, files |-> out.files, root |-> out.root]
    /\ UNCHANGED <<platform, dirs, files, doc, pc, mem, args, hist, result, input>>

NextZip == unzip_call

SpecZip == InitZip /\ [][NextZip]_vars

\* where entry i of the archive goes, and whether that path existed before
entry_path(i) == join(Dest, sanitized_name(input.entries[i].name))

existed(path) == path \in input.dirs \/ path \in input.files

\* C12: extracting a zip whose first entry already exists under the
\* destination creates no file and no directory and returns the sanitized
\* name of the first entry.
C12_ExistingRootSkips ==
    (output.status = "ok" /\ existed(entry_path(1))) =>
        /\ output.dirs = input.dirs
        /\ output.files = input.files
        /\ output.root = sanitized_name(input.entries[1].name)

\* C20: when the path of the first entry does not exist under the
\* destination, every entry of the archive is there once unzip has returned.
C20_AbsentRootExtractsAll ==
    (output.status = "ok" /\ ~existed(entry_path(1))) =>
        \A i \in DOMAIN input.entries :
            entry_path(i) \in output.dirs \/ entry_path(i) \in output.files

====
